---- MODULE Spec2Model ----
(***************************************************************************)
(* Model of the DuckDB ingestion scripts of DommyHoopsBackend:             *)
(*   src/api_scripts/player_season.py  (_norm, fetch_player_stats,         *)
(*                                      to_raw_df, append_df, main)        *)
(*   src/clean.py                      (snake_case, parse_play_text, main) *)
(*                                                                         *)
(* Names are sequences of one-character strings, so that _norm is computed *)
(* character by character as str.strip/replace/lower compute it.           *)
(* The DuckDB connection runs in autocommit mode (the code never issues    *)
(* BEGIN), so every con.execute is one step of the model that takes effect *)
(* on the table at once; any statement may be rejected by the store.       *)
(***************************************************************************)
EXTENDS Integers, Sequences, FiniteSets, TLC

VARIABLES
    tbl,          \* the persisted table: existence, columns, types, rows
    pc,           \* position of the running append_df call
    records,      \* the fetched records handed to to_raw_df (raw field names)
    df,           \* append_df's df after line 133
    table_cols,   \* append_df's local table_cols
    table_types,  \* append_df's local table_types, aligned with table_cols
    todo,         \* columns the ADD COLUMN loop still has to visit (line 158)
    wset,         \* columns the widen loop still has to visit (line 181)
    ops,          \* statements this call has sent to the store, in order
    pre,          \* the table as it was when this call started
    repeat,       \* whether this call repeats the previous call's batch
    prev_ops,     \* the statements of that previous call, when it does
    schema_read,  \* how many statements had been sent when line 143 read the
                  \* schema in this call; -1 before that
    normIn,       \* input of the standalone _norm runs
    normOut,      \* successive results of _norm on normIn
    fetch,        \* a run of fetch_player_stats: position, attempt, responses
    play,         \* one application of parse_play_text: arguments and result
    clean         \* a run of clean.main: the plays table, the open
                  \* transaction, the cursor and the counters

vars == <<tbl, pc, records, df, table_cols, table_types, todo, wset, ops, pre,
          repeat, prev_ops, schema_read, normIn, normOut, fetch, play, clean>>

(***************************************************************************)
(* Bounds                                                                  *)
(***************************************************************************)
MaxNameLen == 3
MaxBatchCols == 2
MaxBatchRows == 2
MaxTableRows == 2

Alphabet == {"A", "a", "b", "1", " ", ".", "-", "_"}

\* Raw field names of the batches, "Player ID" and "pts": no two normalize
\* alike.
RawNames == {<<"P", "l", "a", "y", "e", "r", " ", "I", "D">>, <<"p", "t", "s">>}

player_id == <<"p", "l", "a", "y", "e", "r", "_", "i", "d">>

pts == <<"p", "t", "s">>

\* Raw field names with a collision: "a b" and "a.b" both normalize to a_b.
CollidingRawNames == {<<"a", " ", "b">>, <<"a", ".", "b">>, <<"C">>}

Dtypes == {"int64", "float64", "bool", "datetime64", "object"}

\* The dtypes a fetched field arrives with: a statistic with any of them, an
\* identifier as an integer or as text.
RawFields ==
    [name \in RawNames |-> IF name = <<"p", "t", "s">> THEN Dtypes
                           ELSE {"int64", "object"}]

CollidingFields == [name \in CollidingRawNames |-> {"int64", "object"}]

MaxCollideCols == 3

(***************************************************************************)
(* _norm (lines 39-47)                                                     *)
(***************************************************************************)
RECURSIVE lstrip(_)
lstrip(s) ==
    IF s # <<>> /\ Head(s) = " " THEN lstrip(Tail(s)) ELSE s

RECURSIVE rstrip(_)
rstrip(s) ==
    IF s # <<>> /\ s[Len(s)] = " " THEN rstrip(SubSeq(s, 1, Len(s) - 1)) ELSE s

strip(s) == rstrip(lstrip(s))

replace(s, old, new) ==
    [i \in 1..Len(s) |-> IF s[i] = old THEN new ELSE s[i]]

UpperCase == <<"A", "B", "C", "D", "I", "P">>

LowerCase == <<"a", "b", "c", "d", "i", "p">>

lowerChar(ch) ==
    IF \E k \in 1..Len(UpperCase) : UpperCase[k] = ch
    THEN LowerCase[CHOOSE k \in 1..Len(UpperCase) : UpperCase[k] = ch]
    ELSE ch

lower(s) == [i \in 1..Len(s) |-> lowerChar(s[i])]

norm_wrong_replacement(name) ==
    lower(replace(replace(replace(strip(name), " ", "_"), ".", "_"), "-", "."))

_norm(name) ==
    lower(replace(replace(replace(strip(name), " ", "_"), ".", "_"), "-", "_"))

(***************************************************************************)
(* Sequence helpers                                                        *)
(***************************************************************************)
Range(s) == {s[i] : i \in 1..Len(s)}

Index(s, x) == CHOOSE i \in 1..Len(s) : s[i] = x /\ \A j \in 1..(i - 1) : s[j] # x

Count(s, x) == Cardinality({i \in 1..Len(s) : s[i] = x})

NoRepeat(s) == \A i, j \in 1..Len(s) : s[i] = s[j] => i = j

SeqsUpTo(S, n) == UNION {[1..k -> S] : k \in 0..n}

NULL == [col |-> <<>>, row |-> 0]

NoOp == "None"

(***************************************************************************)
(* Input batches: the records main hands to to_raw_df.  A batch has its    *)
(* raw field names in first-seen order, the pandas dtype of each field and *)
(* the number of records; no records means no fields.  nulls holds the     *)
(* positions of the fields that are None in every record: pd.DataFrame     *)
(* (line 96) gives such a column the dtype object.                         *)
(***************************************************************************)
Batches(Fields, maxCols) ==
    UNION {UNION {{[fields |-> f, dtypes |-> d, nrows |-> n, nulls |-> nu] :
                      n \in (IF f = <<>> THEN 0 ELSE 1)..MaxBatchRows,
                      nu \in SUBSET {i \in 1..Len(f) : d[i] = "object"}} :
                  d \in {e \in [1..Len(f) -> Dtypes] :
                            \A i \in 1..Len(f) : e[i] \in Fields[f[i]]}} :
           f \in {g \in SeqsUpTo(DOMAIN Fields, maxCols) : NoRepeat(g)}}

NoRecords == [fields |-> <<>>, dtypes |-> <<>>, nrows |-> 0, nulls |-> {}]

EmptyFrame == [columns |-> <<>>, dtypes |-> <<>>, nrows |-> 0]

\* to_raw_df (lines 89-105): no records gives an empty frame; otherwise the
\* columns are the normalized field names.
to_raw_df(recs) ==
    IF recs.nrows = 0
    THEN EmptyFrame
    ELSE [columns |-> [i \in 1..Len(recs.fields) |-> _norm(recs.fields[i])],
          dtypes  |-> recs.dtypes,
          nrows   |-> recs.nrows]

empty_rows_only(frame) == frame.nrows = 0

\* df.empty (line 129): true when either axis has length 0.
empty(frame) == Len(frame.columns) = 0 \/ frame.nrows = 0

\* lines 132-133: df.columns = [_norm(c) for c in df.columns]
renamed(frame) ==
    [frame EXCEPT !.columns = [i \in 1..Len(frame.columns) |-> _norm(frame.columns[i])]]

\* df[col] is a Series only when one column bears the name; with two it is a
\* DataFrame, which has no .dtype.
is_series(frame, col) == Count(frame.columns, col) = 1

dtype_of(frame, col) == frame.dtypes[Index(frame.columns, col)]

(***************************************************************************)
(* duck_type_from_pd (lines 147-156) and needs_widen (lines 165-179)       *)
(***************************************************************************)
duck_type_from_pd(dtype) ==
    IF dtype = "int64" THEN "BIGINT"
    ELSE IF dtype = "float64" THEN "DOUBLE"
    ELSE IF dtype = "bool" THEN "BOOLEAN"
    ELSE IF dtype = "datetime64" THEN "TIMESTAMP"
    ELSE "VARCHAR"

needs_widen_no_varchar_guard(current_duck, dtype) ==
    IF dtype = "object" THEN "VARCHAR"
    ELSE IF dtype = "float64"
            /\ current_duck \in {"TINYINT", "SMALLINT", "INTEGER", "BIGINT"}
         THEN "DOUBLE"
    ELSE IF dtype = "datetime64" /\ current_duck # "TIMESTAMP" THEN "TIMESTAMP"
    ELSE NoOp

needs_widen(current_duck, dtype) ==
    IF current_duck \in {"VARCHAR", "JSON"} THEN NoOp
    ELSE IF dtype = "object" THEN "VARCHAR"
    ELSE IF dtype = "float64"
            /\ current_duck \in {"TINYINT", "SMALLINT", "INTEGER", "BIGINT"}
         THEN "DOUBLE"
    ELSE IF dtype = "datetime64" /\ current_duck # "TIMESTAMP" THEN "TIMESTAMP"
    ELSE NoOp

(***************************************************************************)
(* The store (DuckDB), as the statements of append_df use it               *)
(***************************************************************************)
Absent == [exists |-> FALSE, cols |-> <<>>, types |-> <<>>, rows |-> <<>>]

\* What the store's scan does with a frame whose column names repeat is not
\* decided by this code; the model takes a statement that scans such a frame
\* to be rejected, the outcome under which a repeated name does the least.
scannable(frame) == NoRepeat(frame.columns)

\* The type the store gives a column of a scanned frame (SELECT * FROM frame).
pandas_scan_type(dtype) ==
    IF dtype = "int64" THEN "BIGINT"
    ELSE IF dtype = "float64" THEN "DOUBLE"
    ELSE IF dtype = "bool" THEN "BOOLEAN"
    ELSE IF dtype = "datetime64" THEN "TIMESTAMP"
    ELSE "VARCHAR"

create_table_as_with_rows(frame) ==
    [exists |-> TRUE,
     cols   |-> frame.columns,
     types  |-> [i \in 1..Len(frame.columns) |-> pandas_scan_type(frame.dtypes[i])],
     rows   |-> [r \in 1..frame.nrows |->
                    [k \in 1..Len(frame.columns) |->
                        [col |-> frame.columns[k], row |-> r]]]]

\* CREATE TABLE t AS SELECT * FROM tmp_df_init, tmp_df_init = df.head(0)
create_table_as(frame) ==
    [exists |-> TRUE,
     cols   |-> frame.columns,
     types  |-> [i \in 1..Len(frame.columns) |-> pandas_scan_type(frame.dtypes[i])],
     rows   |-> <<>>]

add_column_rebuilding(t, col, type) ==
    [t EXCEPT !.cols  = <<col>>,
              !.types = <<type>>,
              !.rows  = [r \in 1..Len(t.rows) |-> <<NULL>>]]

\* ALTER TABLE t ADD COLUMN col type: the column goes last, NULL in old rows
add_column(t, col, type) ==
    [t EXCEPT !.cols  = Append(t.cols, col),
              !.types = Append(t.types, type),
              !.rows  = [r \in 1..Len(t.rows) |-> Append(t.rows[r], NULL)]]

\* ALTER TABLE t ALTER COLUMN col TYPE type
alter_column_type(t, col, type) ==
    [t EXCEPT !.types[Index(t.cols, col)] = type]

insert_into_in_front(t, tuples) == [t EXCEPT !.rows = tuples \o t.rows]

\* INSERT INTO t SELECT ...: tuples are matched to the columns by position
insert_into(t, tuples) == [t EXCEPT !.rows = t.rows \o tuples]

Stmt(kind, col, type, from) ==
    [kind |-> kind, col |-> col, type |-> type, from |-> from]

(***************************************************************************)
(* append_df (lines 128-194), one action per store statement               *)
(***************************************************************************)
\* line 135-138: the information_schema query and "if not exists"
table_missing_always(t) == TRUE

table_missing(t) == ~t.exists

\* lines 143-145: PRAGMA table_info read into a dict keyed by _norm(name);
\* table_cols is the dict's key order (first occurrence of each key) and a
\* repeated key keeps the type read last.
info_names(t) == [i \in 1..Len(t.cols) |-> _norm(t.cols[i])]

info_cols(t) ==
    LET n == info_names(t)
        first == {i \in 1..Len(n) : \A j \in 1..(i - 1) : n[j] # n[i]}
        F[k \in 0..Len(n)] ==
            IF k = 0 THEN <<>>
            ELSE IF k \in first THEN Append(F[k - 1], n[k]) ELSE F[k - 1]
    IN  F[Len(n)]

info_types(t) ==
    LET n == info_names(t)
        c == info_cols(t)
    IN  [k \in 1..Len(c) |->
            t.types[CHOOSE i \in 1..Len(n) :
                        n[i] = c[k] /\ \A j \in (i + 1)..Len(n) : n[j] # c[k]]]

\* line 158: [c for c in df.columns if c not in table_cols]
new_cols(frame, tcols) ==
    LET F[k \in 0..Len(frame.columns)] ==
            IF k = 0 THEN <<>>
            ELSE IF frame.columns[k] \in Range(tcols) THEN F[k - 1]
            ELSE Append(F[k - 1], frame.columns[k])
    IN  F[Len(frame.columns)]

\* line 181: set(df.columns) & set(table_cols)
shared_cols(frame, tcols) == Range(frame.columns) \cap Range(tcols)

select_exprs_by_frame(frame, tcols) ==
    [k \in 1..Len(frame.columns) |-> frame.columns[k]]

\* line 189: one expression per entry of table_cols, the column itself when
\* the frame has it and NULL AS c when it has not (<<>> stands for NULL).
select_exprs(frame, tcols) ==
    [k \in 1..Len(tcols) |->
        IF tcols[k] \in Range(frame.columns) THEN tcols[k] ELSE <<>>]

\* lines 190-193: the tuples SELECT <select_exprs> FROM tmp_df yields, one per
\* row of the frame, in the frame's row order
selected_rows(frame, exprs) ==
    [r \in 1..frame.nrows |->
        [k \in 1..Len(exprs) |->
            IF exprs[k] = <<>> THEN NULL ELSE [col |-> exprs[k], row |-> r]]]

phase_after_insert_first(p) ==
    IF p = "add" THEN "insert" ELSE IF p = "insert" THEN "widen" ELSE "returned"

\* the order of lines 158-194: the ADD COLUMN loop, then the widen loop, then
\* the INSERT, then the return
phase_after(p) ==
    IF p = "add" THEN "widen" ELSE IF p = "widen" THEN "insert" ELSE "returned"

Finished == pc \in {"returned", "failed"}

\* main lines 210 and 217, append_df lines 128-137: the frame is built, the
\* empty frame returns at once, the columns are renamed and the existence
\* query is answered.
Enter(b, rep, pops) ==
    /\ Len(tbl.rows) + b.nrows <= MaxTableRows
    /\ records' = b
    /\ repeat' = rep
    /\ prev_ops' = pops
    /\ schema_read' = -1
    /\ pre' = tbl
    /\ ops' = <<>>
    /\ table_cols' = <<>>
    /\ table_types' = <<>>
    /\ todo' = <<>>
    /\ wset' = {}
    /\ IF empty(to_raw_df(b))
       THEN /\ df' = to_raw_df(b)
            /\ pc' = "returned"
       ELSE /\ df' = renamed(to_raw_df(b))
            /\ pc' = IF table_missing(tbl) THEN "create" ELSE "info"
    /\ UNCHANGED <<tbl, normIn, normOut, fetch, play, clean>>

\* a run of main with freshly fetched records
Call(Fields, maxCols) ==
    /\ pc = "idle"
    /\ \E b \in Batches(Fields, maxCols) : Enter(b, "no", <<>>)

\* the caller submits the batch of the call that just ended once more
CallAgain ==
    /\ Finished
    /\ Enter(records, IF pc = "returned" THEN "after_return" ELSE "after_failure", ops)

\* append_df has returned or raised; its frame and locals are gone
Return ==
    /\ Finished
    /\ pc' = "idle"
    /\ records' = NoRecords
    /\ df' = EmptyFrame
    /\ table_cols' = <<>>
    /\ table_types' = <<>>
    /\ todo' = <<>>
    /\ wset' = {}
    /\ ops' = <<>>
    /\ pre' = tbl
    /\ repeat' = "no"
    /\ prev_ops' = <<>>
    /\ schema_read' = -1
    /\ UNCHANGED <<tbl, normIn, normOut, fetch, play, clean>>

\* lines 138-141
CreateTable ==
    /\ pc = "create"
    /\ ops' = Append(ops, Stmt("CREATE", <<>>, "", ""))
    /\ \E ok \in BOOLEAN :
        IF ok /\ scannable(df) /\ ~tbl.exists
        THEN /\ tbl' = create_table_as(df)
             /\ pc' = "info"
        ELSE /\ tbl' = tbl
             /\ pc' = "failed"
    /\ UNCHANGED <<records, df, table_cols, table_types, todo, wset, pre, repeat,
                   prev_ops, schema_read, normIn, normOut, fetch, play, clean>>

\* lines 143-145, and the list of line 158
ReadInfo ==
    /\ pc = "info"
    /\ table_cols' = info_cols(tbl)
    /\ table_types' = info_types(tbl)
    /\ todo' = new_cols(df, info_cols(tbl))
    /\ wset' = IF new_cols(df, info_cols(tbl)) = <<>>
               THEN shared_cols(df, info_cols(tbl)) ELSE {}
    /\ pc' = IF new_cols(df, info_cols(tbl)) = <<>> THEN phase_after("add") ELSE "add"
    /\ schema_read' = Len(ops)
    /\ UNCHANGED <<tbl, records, df, ops, pre, repeat, prev_ops,
                   normIn, normOut, fetch, play, clean>>

\* lines 158-163, one iteration
AddColumn ==
    /\ pc = "add"
    /\ LET col == Head(todo)
       IN  IF ~is_series(df, col)
           THEN \* df[col].dtype raises AttributeError before the statement
                /\ pc' = "failed"
                /\ UNCHANGED <<tbl, table_cols, table_types, todo, wset, ops>>
           ELSE LET type == duck_type_from_pd(dtype_of(df, col))
                IN  /\ ops' = Append(ops, Stmt("ADD", col, type, ""))
                    /\ \E ok \in BOOLEAN :
                        IF ok /\ col \notin Range(tbl.cols)
                        THEN /\ tbl' = add_column(tbl, col, type)
                             /\ table_types' = Append(table_types, type)
                             /\ table_cols' = Append(table_cols, col)
                             /\ todo' = Tail(todo)
                             /\ wset' = IF Tail(todo) = <<>>
                                        THEN shared_cols(df, Append(table_cols, col))
                                        ELSE {}
                             /\ pc' = IF Tail(todo) = <<>> THEN phase_after("add")
                                      ELSE "add"
                        ELSE /\ pc' = "failed"
                             /\ UNCHANGED <<tbl, table_cols, table_types, todo, wset>>
    /\ UNCHANGED <<records, df, pre, repeat, prev_ops, schema_read,
                   normIn, normOut, fetch, play, clean>>

\* lines 181-187, one iteration; a set is iterated in no particular order
WidenColumn ==
    /\ pc = "widen"
    /\ \E col \in wset :
        LET k == Index(table_cols, col)
            current == table_types[k]
            after == IF wset = {col} THEN phase_after("widen") ELSE "widen"
        IN  IF current \notin {"VARCHAR", "JSON"} /\ ~is_series(df, col)
            THEN \* series.dtype raises AttributeError on a DataFrame
                 /\ pc' = "failed"
                 /\ UNCHANGED <<tbl, table_types, wset, ops>>
            ELSE LET tgt == needs_widen(current, dtype_of(df, col))
                 IN  IF tgt = NoOp
                     THEN /\ wset' = wset \ {col}
                          /\ pc' = after
                          /\ UNCHANGED <<tbl, table_types, ops>>
                     ELSE /\ ops' = Append(ops, Stmt("ALTER", col, tgt, current))
                          /\ \E ok \in BOOLEAN :
                              IF ok
                              THEN /\ tbl' = alter_column_type(tbl, col, tgt)
                                   /\ table_types' = [table_types EXCEPT ![k] = tgt]
                                   /\ wset' = wset \ {col}
                                   /\ pc' = after
                              ELSE /\ pc' = "failed"
                                   /\ UNCHANGED <<tbl, table_types, wset>>
    /\ UNCHANGED <<records, df, table_cols, todo, pre, repeat, prev_ops, schema_read,
                   normIn, normOut, fetch, play, clean>>

\* lines 189-194
Insert ==
    /\ pc = "insert"
    /\ ops' = Append(ops, Stmt("INSERT", <<>>, "", ""))
    /\ LET exprs == select_exprs(df, table_cols)
       IN  \E ok \in BOOLEAN :
            IF ok /\ scannable(df) /\ Len(exprs) = Len(tbl.cols)
            THEN /\ tbl' = insert_into(tbl, selected_rows(df, exprs))
                 /\ pc' = phase_after("insert")
            ELSE /\ tbl' = tbl
                 /\ pc' = "failed"
    /\ UNCHANGED <<records, df, table_cols, table_types, todo, wset, pre, repeat,
                   prev_ops, schema_read, normIn, normOut, fetch, play, clean>>

\* the other scripts and functions at rest
NoFetch ==
    [pc |-> "idle", attempt |-> 0, log |-> <<>>, slept |-> 0, result |-> "none"]

None == [none |-> TRUE, text |-> <<>>]

NoPlay ==
    [play_text |-> None, shooting_play |-> FALSE, done |-> FALSE,
     play_type |-> <<>>, player |-> <<>>]

NoClean ==
    [pc |-> "idle", before |-> <<>>, stored |-> <<>>, work |-> <<>>,
     cursor |-> <<>>, has_columns |-> FALSE, total_rows |-> 0, fetched |-> 0,
     processed |-> 0, log |-> <<>>]

Init ==
    /\ tbl = Absent
    /\ pc = "idle"
    /\ records = NoRecords
    /\ df = EmptyFrame
    /\ table_cols = <<>>
    /\ table_types = <<>>
    /\ todo = <<>>
    /\ wset = {}
    /\ ops = <<>>
    /\ pre = Absent
    /\ repeat = "no"
    /\ prev_ops = <<>>
    /\ schema_read = -1
    /\ normIn = <<>>
    /\ normOut = <<>>
    /\ fetch = NoFetch
    /\ play = NoPlay
    /\ clean = NoClean

Next ==
    \/ Call(RawFields, MaxBatchCols)
    \/ CallAgain
    \/ Return
    \/ CreateTable
    \/ ReadInfo
    \/ AddColumn
    \/ WidenColumn
    \/ Insert

Spec == Init /\ [][Next]_vars

(***************************************************************************)
(* The same engine fed with batches whose raw field names collide          *)
(***************************************************************************)
NextCollide ==
    \/ Call(CollidingFields, MaxCollideCols)
    \/ CallAgain
    \/ Return
    \/ CreateTable
    \/ ReadInfo
    \/ AddColumn
    \/ WidenColumn
    \/ Insert

SpecCollide == Init /\ [][NextCollide]_vars

(***************************************************************************)
(* _norm on its own: every name over Alphabet up to MaxNameLen characters, *)
(* normalized once and then once more                                      *)
(***************************************************************************)
NormInit ==
    /\ tbl = Absent
    /\ pc = "idle"
    /\ records = NoRecords
    /\ df = EmptyFrame
    /\ table_cols = <<>>
    /\ table_types = <<>>
    /\ todo = <<>>
    /\ wset = {}
    /\ ops = <<>>
    /\ pre = Absent
    /\ repeat = "no"
    /\ prev_ops = <<>>
    /\ schema_read = -1
    /\ normIn \in SeqsUpTo(Alphabet, MaxNameLen)
    /\ normOut = <<>>
    /\ fetch = NoFetch
    /\ play = NoPlay
    /\ clean = NoClean

NormApply ==
    /\ Len(normOut) < 2
    /\ normOut' = Append(normOut, _norm(IF normOut = <<>> THEN normIn
                                        ELSE normOut[Len(normOut)]))
    /\ UNCHANGED <<tbl, pc, records, df, table_cols, table_types, todo, wset, ops,
                   pre, repeat, prev_ops, schema_read, normIn, fetch, play, clean>>

NormNext == NormApply

NormSpec == NormInit /\ [][NormNext]_vars

(***************************************************************************)
(* fetch_player_stats (lines 52-84) and backoff (lines 49-50).             *)
(* What one requests.get can bring:                                        *)
(*   "200"               status 200, a body r.json() decodes               *)
(*   "200_not_json"      status 200, a body r.json() cannot decode         *)
(*   "retryable"         status 429, 500, 502, 503 or 504                  *)
(*   "http_error"        another status from 400 up: raise_for_status      *)
(*                       raises HTTPError, a RequestException              *)
(*   "other_status"      another status below 400: raise_for_status        *)
(*                       returns and the loop goes on                      *)
(*   "request_exception" requests.get itself raises RequestException       *)
(* The error of r.json() is a RequestException in requests 2.27 and later  *)
(* and a plain ValueError before; the code pins no version, so both are    *)
(* possible: caught by line 80, or not.                                    *)
(***************************************************************************)
MAX_RETRIES == 5

Responses ==
    {"200", "200_not_json", "retryable", "http_error", "other_status",
     "request_exception"}

appendVars ==
    <<tbl, pc, records, df, table_cols, table_types, todo, wset, ops, pre,
      repeat, prev_ops, schema_read, normIn, normOut>>

\* line 50: the argument of time.sleep, in tenths of a second
backoff(attempt) == (attempt + 1) * 6

\* lines 76-77 and 81-82: no attempt is left
last_attempt(f) == f.attempt = MAX_RETRIES

\* lines 80-83: the except clause
except_RequestException(f) ==
    IF last_attempt(f) THEN [f EXCEPT !.pc = "raised"]
    ELSE [f EXCEPT !.pc = "backoff"]

\* lines 52-69: the parameters are built and the loop starts at attempt 0
FetchCall ==
    /\ fetch.pc = "idle"
    /\ fetch' = [NoFetch EXCEPT !.pc = "request"]
    /\ UNCHANGED <<appendVars, play, clean>>

\* lines 70-83: one pass of the loop body up to the backoff
FetchRequest ==
    /\ fetch.pc = "request"
    /\ \E resp \in Responses, caught \in BOOLEAN :
        LET f == [fetch EXCEPT !.log = Append(@, resp)]
        IN  fetch' =
              IF resp = "200"
              THEN [f EXCEPT !.pc = "returned", !.result = "body"]
              ELSE IF resp = "200_not_json"
              THEN IF caught THEN except_RequestException(f)
                   ELSE [f EXCEPT !.pc = "raised"]
              ELSE IF resp = "retryable"
              THEN IF last_attempt(f) THEN [f EXCEPT !.pc = "raised"]
                   ELSE [f EXCEPT !.pc = "backoff"]
              ELSE IF resp \in {"http_error", "request_exception"}
              THEN except_RequestException(f)
              ELSE \* "other_status": nothing raised, no backoff; line 84 after
                   \* the last pass
                   IF last_attempt(f)
                   THEN [f EXCEPT !.pc = "returned", !.result = "empty_list"]
                   ELSE [f EXCEPT !.attempt = @ + 1]
    /\ UNCHANGED <<appendVars, play, clean>>

\* lines 78-79 and 83: the sleep, then the next pass of the loop
FetchBackoff ==
    /\ fetch.pc = "backoff"
    /\ fetch' = [fetch EXCEPT !.slept = @ + backoff(fetch.attempt),
                              !.attempt = @ + 1,
                              !.pc = "request"]
    /\ UNCHANGED <<appendVars, play, clean>>

FetchNext ==
    \/ FetchCall
    \/ FetchRequest
    \/ FetchBackoff

FetchSpec == Init /\ [][FetchNext]_vars

(***************************************************************************)
(* src/clean.py: snake_case (lines 13-16) and parse_play_text (19-101).    *)
(* A play text is a sequence of tokens: a word of letters, or one of the   *)
(* characters space, dot, colon, underscore.  No word of the vocabulary    *)
(* begins or ends with another, so a substring search over characters      *)
(* finds what the search over tokens finds.  None is the missing text.     *)
(***************************************************************************)
MaxTextLen == 5

PlayTokens == {"J", " ", ".", "made", "Missed", "Foul", "on"}

\* longer texts for the branches the short ones cannot reach
SamplePlays ==
    {<<"J", " ", "offensive", " ", "rebound", ".">>,
     <<"J", ".", " ", "defensive", " ", "rebound">>,
     <<"Foul", "_", "on", "_", "player", ":", " ", "J", ".", "J">>,
     <<"J", " ", "Foul", "_", "on", "_", "player">>,
     <<"J", " ", "turnover", " ", "made", " ", "J">>,
     <<"J", " ", "Missed", " ", "J", " ", "made", " ", "J">>,
     <<" ", "J", " ", "steal", ".", " ">>,
     <<"J", " ", "block", " ", "J", " ", "blocked", " ", "J">>,
     <<"substitution", ":", " ", "J", " ", "substitution">>}

PlayTexts ==
    {None} \cup
    {[none |-> FALSE, text |-> t] :
        t \in SeqsUpTo(PlayTokens, MaxTextLen) \cup SamplePlays}

WordUpper == <<"J", "Missed", "Foul">>

WordLower == <<"j", "missed", "foul">>

\* str.lower on a text
text_lower(s) ==
    [i \in 1..Len(s) |->
        IF \E k \in 1..Len(WordUpper) : WordUpper[k] = s[i]
        THEN WordLower[CHOOSE k \in 1..Len(WordUpper) : WordUpper[k] = s[i]]
        ELSE s[i]]

\* str.find: the 0-based position of the first occurrence of kw, -1 without
find(s, kw) ==
    LET at == {i \in 1..(Len(s) - Len(kw) + 1) :
                  SubSeq(s, i, i + Len(kw) - 1) = kw}
    IN  IF at = {} THEN -1
        ELSE (CHOOSE i \in at : \A j \in at : i <= j) - 1

\* str.strip(chars)
strip_chars(s, chars) ==
    LET keep == {i \in 1..Len(s) : s[i] \notin chars}
    IN  IF keep = {} THEN <<>>
        ELSE SubSeq(s, CHOOSE i \in keep : \A j \in keep : i <= j,
                       CHOOSE i \in keep : \A j \in keep : i >= j)

\* the characters slug_re matches: everything but a-z and 0-9
NonAlnum == {" ", ".", ":", "_"}

\* line 15: slug_re.sub("_", s), each maximal run becomes one underscore
RECURSIVE slug_sub(_)
slug_sub(s) ==
    IF s = <<>> THEN <<>>
    ELSE IF Head(s) \notin NonAlnum THEN <<Head(s)>> \o slug_sub(Tail(s))
    ELSE IF Len(s) > 1 /\ s[2] \in NonAlnum THEN slug_sub(Tail(s))
    ELSE <<"_">> \o slug_sub(Tail(s))

\* lines 13-16
snake_case(s) == strip_chars(slug_sub(text_lower(s)), {"_"})

\* re.search(lit seps+ (.+?) (?:[.:]|$), text, IGNORECASE): the leftmost
\* occurrence of lit that is followed by a character of seps and then by at
\* least one more character; the run of seps is taken whole unless it ends
\* the text, and the group runs up to the first dot or colon or to the end.
re_search(text, lit, seps) ==
    LET n == Len(text)
        low == text_lower(text)
        at == {i \in 1..n :
                  /\ i + Len(lit) + 1 <= n
                  /\ SubSeq(low, i, i + Len(lit) - 1) = lit
                  /\ text[i + Len(lit)] \in seps}
    IN  IF at = {} THEN [matched |-> FALSE, group |-> <<>>]
        ELSE LET i == CHOOSE k \in at : \A j \in at : k <= j
                 p == i + Len(lit)
                 run == {j \in p..n : \A k \in p..j : text[k] \in seps}
                 q == CHOOSE j \in run : \A k \in run : j >= k
                 g == IF q = n THEN n ELSE q + 1
                 ends == {j \in g..n : j = n \/ text[j + 1] \in {".", ":"}}
                 e == CHOOSE j \in ends : \A k \in ends : j <= k
             IN  [matched |-> TRUE, group |-> SubSeq(text, g, e)]

\* lines 66-78
verbs ==
    <<<<" ", "offensive", " ", "rebound">>,
      <<" ", "defensive", " ", "rebound">>,
      <<" ", "made", " ">>,
      <<" ", "missed", " ">>,
      <<" ", "turnover">>,
      <<" ", "blocked", " ">>,
      <<" ", "block", " ">>,
      <<" ", "substitution">>,
      <<" ", "rebound">>,
      <<" ", "steal">>,
      <<" ", "foul">>>>

\* lines 39-45: the keyword loop of a shooting play
shot_player(text, low) ==
    IF find(low, <<" ", "made", " ">>) # -1
    THEN strip_chars(SubSeq(text, 1, find(low, <<" ", "made", " ">>)), {" ", "."})
    ELSE IF find(low, <<" ", "missed", " ">>) # -1
    THEN strip_chars(SubSeq(text, 1, find(low, <<" ", "missed", " ">>)), {" ", "."})
    ELSE <<>>

\* lines 80-101: the earliest verb splits the text into player and action
generic_play(text, low) ==
    LET found == {find(low, verbs[k]) : k \in 1..Len(verbs)} \ {-1}
    IN  IF found # {}
        THEN LET best_idx == CHOOSE i \in found : \A j \in found : i <= j
             IN  [play_type |-> snake_case(strip_chars(
                                    SubSeq(text, best_idx + 1, Len(text)), {" ", "."})),
                  player |-> strip_chars(SubSeq(text, 1, best_idx), {" ", "."})]
        ELSE [play_type |-> snake_case(text), player |-> <<>>]

\* lines 19-101
parse_play_text(play_text, shooting_play) ==
    IF play_text.none \/ play_text.text = <<>>
    THEN [play_type |-> <<>>, player |-> <<>>]
    ELSE LET text == strip(play_text.text)
             low == text_lower(text)
             m1 == re_search(text, <<"foul", " ", "on">>, {" "})
             m2 == re_search(text, <<"foul", "_", "on", "_", "player">>, {":", " "})
         IN  IF shooting_play
             THEN [play_type |-> <<"shot">>, player |-> shot_player(text, low)]
             ELSE IF m1.matched
             THEN [play_type |-> <<"foul">>,
                   player |-> strip_chars(m1.group, {" ", "."})]
             ELSE IF m2.matched
             THEN [play_type |-> <<"foul">>,
                   player |-> strip_chars(m2.group, {" ", "."})]
             ELSE generic_play(text, low)

\* parse_play_text on its own: every text of PlayTexts with either flag
ParseInit ==
    /\ tbl = Absent
    /\ pc = "idle"
    /\ records = NoRecords
    /\ df = EmptyFrame
    /\ table_cols = <<>>
    /\ table_types = <<>>
    /\ todo = <<>>
    /\ wset = {}
    /\ ops = <<>>
    /\ pre = Absent
    /\ repeat = "no"
    /\ prev_ops = <<>>
    /\ schema_read = -1
    /\ normIn = <<>>
    /\ normOut = <<>>
    /\ fetch = NoFetch
    /\ play \in {[NoPlay EXCEPT !.play_text = t, !.shooting_play = b] :
                    t \in PlayTexts, b \in BOOLEAN}
    /\ clean = NoClean

ParseApply ==
    /\ ~play.done
    /\ LET r == parse_play_text(play.play_text, play.shooting_play)
       IN  play' = [play EXCEPT !.done = TRUE,
                                !.play_type = r.play_type,
                                !.player = r.player]
    /\ UNCHANGED <<appendVars, fetch, clean>>

ParseNext == ParseApply

ParseSpec == ParseInit /\ [][ParseNext]_vars

(***************************************************************************)
(* src/clean.py: main (lines 104-163).  A row of the plays table has its   *)
(* rowid, playText, shootingPlay ("true", "false" or "NULL") and the two   *)
(* columns main fills; updates counts the UPDATE statements that reached   *)
(* the row, and while it is 0 play_type and player are NULL (shown empty). *)
(* stored is the committed table, work the table as the open transaction   *)
(* of con sees it, cursor the result of the SELECT of line 130.  An        *)
(* exception leaves main with the transaction open; the connection goes    *)
(* away with the process and nothing of the transaction is kept.           *)
(* CHUNK_SIZE is 20_000 in the source (line 7) and small here.             *)
(***************************************************************************)
MaxCleanRows == 3
CHUNK_SIZE == 2

CleanTexts ==
    {None,
     [none |-> FALSE, text |-> <<"J", " ", "made", " ", "J">>],
     [none |-> FALSE, text |-> <<"Foul", " ", "on", " ", "J", ".">>]}

Flags == {"true", "false", "NULL"}

PlayTables ==
    UNION {{[i \in 1..n |-> [rowid |-> i, playText |-> t[i], shootingPlay |-> f[i],
                             play_type |-> <<>>, player |-> <<>>, updates |-> 0]] :
               t \in [1..n -> CleanTexts], f \in [1..n -> Flags]} :
           n \in 0..MaxCleanRows}

\* line 144: bool(shooting_play)
bool(x) == x = "true"

fetchmany_full_chunks(rows, fetched, size) ==
    IF fetched + size <= Len(rows) THEN SubSeq(rows, fetched + 1, fetched + size)
    ELSE <<>>

\* line 137: the next size rows of the result, fewer at its end
fetchmany(rows, fetched, size) ==
    SubSeq(rows, fetched + 1,
           IF fetched + size <= Len(rows) THEN fetched + size ELSE Len(rows))

\* lines 141-147: one tuple (play_type, player, rowid) per fetched row
updates_of(rows) ==
    [i \in 1..Len(rows) |->
        [play_type |-> parse_play_text(rows[i].playText,
                                       bool(rows[i].shootingPlay)).play_type,
         player    |-> parse_play_text(rows[i].playText,
                                       bool(rows[i].shootingPlay)).player,
         rowid     |-> rows[i].rowid]]

\* line 151, one parameter tuple: UPDATE ... SET ... WHERE rowid = ?
update_row(t, u) ==
    [r \in 1..Len(t) |->
        IF t[r].rowid = u.rowid
        THEN [t[r] EXCEPT !.play_type = u.play_type,
                          !.player = u.player,
                          !.updates = @ + 1]
        ELSE t[r]]

\* lines 150-153: executemany runs the statement once per tuple, in order
RECURSIVE executemany(_, _)
executemany(t, updates) ==
    IF updates = <<>> THEN t
    ELSE executemany(update_row(t, Head(updates)), Tail(updates))

CleanInit ==
    /\ tbl = Absent
    /\ pc = "idle"
    /\ records = NoRecords
    /\ df = EmptyFrame
    /\ table_cols = <<>>
    /\ table_types = <<>>
    /\ todo = <<>>
    /\ wset = {}
    /\ ops = <<>>
    /\ pre = Absent
    /\ repeat = "no"
    /\ prev_ops = <<>>
    /\ schema_read = -1
    /\ normIn = <<>>
    /\ normOut = <<>>
    /\ fetch = NoFetch
    /\ play = NoPlay
    /\ clean \in {[NoClean EXCEPT !.before = t, !.stored = t, !.has_columns = h] :
                     t \in PlayTables, h \in BOOLEAN}

\* lines 105-134: the two ADD COLUMN IF NOT EXISTS (committed at once), the
\* count and the return on an empty table, BEGIN, the SELECT of the cursor
CleanStart ==
    /\ clean.pc = "idle"
    /\ clean' =
         IF Len(clean.stored) = 0
         THEN [clean EXCEPT !.pc = "done",
                            !.has_columns = TRUE,
                            !.log = <<"ALTER", "ALTER">>]
         ELSE [clean EXCEPT !.pc = "loop",
                            !.has_columns = TRUE,
                            !.total_rows = Len(clean.stored),
                            !.work = clean.stored,
                            !.cursor = clean.stored,
                            !.fetched = 0,
                            !.processed = 0,
                            !.log = <<"ALTER", "ALTER", "BEGIN">>]
    /\ UNCHANGED <<appendVars, fetch, play>>

\* lines 136-158: one pass of the loop; the store may reject the UPDATE
CleanChunk ==
    /\ clean.pc = "loop"
    /\ LET rows == fetchmany(clean.cursor, clean.fetched, CHUNK_SIZE)
       IN  IF rows = <<>>
           THEN clean' = [clean EXCEPT !.pc = "commit"]
           ELSE \E ok \in BOOLEAN :
                 clean' =
                   IF ok
                   THEN [clean EXCEPT
                           !.work = executemany(@, updates_of(rows)),
                           !.fetched = @ + Len(rows),
                           !.processed = @ + Len(rows),
                           !.log = @ \o [i \in 1..Len(rows) |-> "UPDATE"]]
                   ELSE [clean EXCEPT !.pc = "failed",
                                      !.fetched = @ + Len(rows),
                                      !.work = clean.stored]
    /\ UNCHANGED <<appendVars, fetch, play>>

\* lines 160-161
CleanCommit ==
    /\ clean.pc = "commit"
    /\ \E ok \in BOOLEAN :
        clean' = IF ok
                 THEN [clean EXCEPT !.pc = "done",
                                    !.stored = clean.work,
                                    !.log = Append(@, "COMMIT")]
                 ELSE [clean EXCEPT !.pc = "failed", !.work = clean.stored]
    /\ UNCHANGED <<appendVars, fetch, play>>

CleanNext ==
    \/ CleanStart
    \/ CleanChunk
    \/ CleanCommit

CleanSpec == CleanInit /\ [][CleanNext]_vars

(***************************************************************************)
(* The type lattice of the specification (section 4.2), in which the       *)
(* claims about widening are stated                                        *)
(***************************************************************************)
Reading(type) ==
    IF type \in {"TINYINT", "SMALLINT", "INTEGER", "BIGINT"} THEN "INTEGER"
    ELSE IF type = "DOUBLE" THEN "FLOAT"
    ELSE IF type \in {"VARCHAR", "JSON"} THEN "TEXT"
    ELSE type

Leq(a, b) ==
    \/ a = b
    \/ b = "TEXT"
    \/ <<a, b>> \in {<<"BOOLEAN", "INTEGER">>, <<"BOOLEAN", "FLOAT">>,
                     <<"INTEGER", "FLOAT">>}

Join(a, b) == IF Leq(a, b) THEN b ELSE IF Leq(b, a) THEN a ELSE "TEXT"

type_in(t, c) == t.types[Index(t.cols, c)]

Kinds(o) == [i \in 1..Len(o) |-> o[i].kind]

Issued(o, kind) == \E i \in 1..Len(o) : o[i].kind = kind

NonEmptyBatch == Len(df.columns) > 0 /\ df.nrows > 0

(***************************************************************************)
(* Claims                                                                  *)
(***************************************************************************)

\* C1: a call of append_df that fails leaves the table exactly as it was
\* when the call started (existence, columns, types, rows).
C1_BatchAtomic == pc = "failed" => tbl = pre

\* C2: no step ever removes the table or one of its columns, and after a
\* successful append of a non-empty batch every column of the batch is a
\* column of the table.
C2_MonotonicColumns ==
    /\ [](pc = "returned" /\ NonEmptyBatch
            => Range(df.columns) \subseteq Range(tbl.cols))
    /\ [][/\ tbl.exists => tbl'.exists
          /\ Range(tbl.cols) \subseteq Range(tbl'.cols)]_vars

C2_Witness ==
    /\ pc = "returned"
    /\ pre.exists
    /\ Issued(ops, "ADD")
    /\ \E c \in Range(pre.cols) :
        c \notin Range(df.columns) /\ c \in Range(tbl.cols)

\* C3: every ALTER COLUMN TYPE that append_df issues asks for a type at or
\* above the persisted type in the lattice, and at every point of a call
\* each column the table had at the start has a type at or above the one it
\* had then.
C3_WideningOnlyUpward ==
    /\ \A i \in 1..Len(ops) :
        ops[i].kind = "ALTER" => Leq(Reading(ops[i].from), Reading(ops[i].type))
    /\ \A c \in Range(pre.cols) :
        /\ c \in Range(tbl.cols)
        /\ Leq(Reading(type_in(pre, c)), Reading(type_in(tbl, c)))

\* C4: after a successful append to an existing table, every column the
\* batch shares with the table has the join of its persisted type and the
\* batch's inferred type, and an ALTER COLUMN TYPE was issued for it exactly
\* when that join differs from the persisted type.
C4_TypeLatticeJoin ==
    pc = "returned" /\ NonEmptyBatch /\ pre.exists =>
        \A c \in Range(df.columns) \cap Range(pre.cols) :
            LET P == Reading(type_in(pre, c))
                N == Reading(duck_type_from_pd(dtype_of(df, c)))
            IN  /\ Reading(type_in(tbl, c)) = Join(P, N)
                /\ (\E i \in 1..Len(ops) : ops[i].kind = "ALTER" /\ ops[i].col = c)
                     <=> Join(P, N) # P

\* C5: after a successful append of a non-empty batch, each of the rows it
\* added has one value per column of the table, in the table's column order:
\* the batch's value of that column and row when the batch has the column,
\* NULL when it has not.
C5_NullPaddingAligned ==
    pc = "returned" /\ NonEmptyBatch =>
        /\ Len(tbl.rows) = Len(pre.rows) + df.nrows
        /\ \A r \in 1..df.nrows :
            LET row == tbl.rows[Len(pre.rows) + r]
            IN  /\ Len(row) = Len(tbl.cols)
                /\ \A k \in 1..Len(tbl.cols) :
                    row[k] = IF tbl.cols[k] \in Range(df.columns)
                             THEN [col |-> tbl.cols[k], row |-> r]
                             ELSE NULL

C5_Witness ==
    /\ pc = "returned"
    /\ NonEmptyBatch
    /\ Len(tbl.cols) = 2
    /\ tbl.cols[1] \notin Range(df.columns)
    /\ tbl.rows[Len(tbl.rows)][1] = NULL
    /\ tbl.rows[Len(tbl.rows)][2] = [col |-> tbl.cols[2], row |-> df.nrows]

\* C6: a call that repeats, with a non-empty batch, the batch of the call
\* that returned just before it issues no CREATE TABLE, ADD COLUMN or ALTER
\* COLUMN TYPE, and the schema stays as it was when the call started.
C6_IdempotentReconcile ==
    repeat = "after_return" /\ records.nrows > 0 /\ records.fields # <<>> =>
        /\ \A i \in 1..Len(ops) : ops[i].kind = "INSERT"
        /\ tbl.exists = pre.exists
        /\ tbl.cols = pre.cols
        /\ tbl.types = pre.types

C6_Witness ==
    /\ repeat = "after_return"
    /\ pc = "returned"
    /\ NonEmptyBatch
    /\ Issued(prev_ops, "ADD")
    /\ Issued(prev_ops, "ALTER")
    /\ Kinds(ops) = <<"INSERT">>

\* C7: a call with an empty batch returns without error, having sent no
\* statement to the store and with the table as it was.
C7_EmptyBatchNoOp ==
    pc # "idle" /\ (Len(df.columns) = 0 \/ df.nrows = 0) =>
        /\ pc = "returned"
        /\ ops = <<>>
        /\ tbl = pre

C7_Witness ==
    /\ pc = "returned"
    /\ records.nrows = 0
    /\ ops = <<>>
    /\ tbl.exists
    /\ Len(tbl.rows) > 0

\* C8: a batch in which two distinct raw field names normalize to the same
\* column name is rejected with an error and changes nothing: the table stays
\* as it was when the call started and the call ends in failure.
Collides(b) ==
    /\ b.nrows > 0
    /\ \E i, j \in 1..Len(b.fields) :
        i # j /\ _norm(b.fields[i]) = _norm(b.fields[j])

C8_CollisionRejected ==
    pc # "idle" /\ Collides(records) =>
        /\ tbl = pre
        /\ pc # "returned"

\* C9: normalizing a normalized name gives the same name.
C9_NormIdempotent == Len(normOut) = 2 => normOut[2] = normOut[1]

C9_Witness ==
    /\ Len(normOut) = 2
    /\ Len(normIn) = 3
    /\ normIn[1] = " "
    /\ normIn[2] = "A"
    /\ normIn[3] = "-"
    /\ normOut[1] = <<"a", "_">>

C12_RetrySkipsApplied ==
    repeat = "after_failure" =>
        /\ \A i \in 1..Len(ops) :
               /\ ops[i].kind = "CREATE" => ~pre.exists
               /\ ops[i].kind = "ADD" => ops[i].col \notin Range(pre.cols)
               /\ ops[i].kind = "ALTER" =>
                      /\ ops[i].from # ops[i].type
                      /\ ops[i].col \in Range(pre.cols) =>
                             type_in(pre, ops[i].col) # ops[i].type
        /\ pc = "create" => ~tbl.exists
        /\ pc = "add" => Head(todo) \notin Range(tbl.cols)

\* the failed call added a column and failed at its ALTER; the retry found
\* the column in place, sent only the ALTER and the INSERT, and returned
C12_Witness ==
    /\ repeat = "after_failure"
    /\ Kinds(prev_ops) = <<"ADD", "ALTER">>
    /\ prev_ops[1].col \in Range(pre.cols)
    /\ Kinds(ops) = <<"ALTER", "INSERT">>
    /\ pc = "returned"


\* C13: in a call that has sent its INSERT, every structural statement of
\* the call (CREATE TABLE, ADD COLUMN, ALTER COLUMN TYPE) was sent before the
\* schema was last read from the store: the column list of the INSERT rests
\* on a read that followed the last structural statement.
C13_FreshSchemaBeforeInsert ==
    Issued(ops, "INSERT") =>
        \A i \in 1..Len(ops) :
            ops[i].kind \in {"CREATE", "ADD", "ALTER"} => i <= schema_read


\* C14: when a call with a batch column that is null in every row returns,
\* that column has in the table the type it had before the call, no ALTER
\* COLUMN TYPE having been sent for it, when the table had the column; and
\* the type VARCHAR (TEXT) when the call created it.
C14_AllNullNoConstraint ==
    pc = "returned" /\ NonEmptyBatch =>
        \A i \in records.nulls :
            LET c == df.columns[i]
            IN  IF c \in Range(pre.cols)
                THEN /\ type_in(tbl, c) = type_in(pre, c)
                     /\ ~\E j \in 1..Len(ops) :
                            ops[j].kind = "ALTER" /\ ops[j].col = c
                ELSE type_in(tbl, c) = "VARCHAR"


\* C15: within one call the statements go out in the order CREATE TABLE (at
\* most one), every ADD COLUMN, every ALTER COLUMN TYPE, INSERT (at most one,
\* and last); the INSERT is reached only when no column is left to add or to
\* widen, and until it is sent the table has the rows it had at the start.
Rank(kind) ==
    IF kind = "CREATE" THEN 1
    ELSE IF kind = "ADD" THEN 2
    ELSE IF kind = "ALTER" THEN 3
    ELSE 4

C15_StructureBeforeInsert ==
    /\ \A i, j \in 1..Len(ops) :
           i < j => /\ Rank(ops[i].kind) <= Rank(ops[j].kind)
                    /\ ops[i].kind \in {"CREATE", "INSERT"} =>
                           ops[i].kind # ops[j].kind
    /\ pc = "insert" => todo = <<>> /\ wset = {}
    /\ ~Issued(ops, "INSERT") => Len(tbl.rows) = Len(pre.rows)

\* a call that added a column, widened another, inserted and returned
C15_Witness ==
    /\ Kinds(ops) = <<"ADD", "ALTER", "INSERT">>
    /\ pc = "returned"


\* C16: the result of _norm is in canonical form: it has no upper-case
\* letter, no space at either end, no underscore at either end, and no more
\* underscores than the input has maximal runs of separator characters
\* (space, dot, hyphen) and underscores of its own.
Separators == {" ", ".", "-"}

SeparatorRuns(s) ==
    Cardinality({i \in 1..Len(s) :
                    s[i] \in Separators /\ (i = 1 \/ s[i - 1] \notin Separators)})

C16_CanonicalForm ==
    Len(normOut) >= 1 =>
        LET out == normOut[1]
        IN  /\ \A i \in 1..Len(out) : out[i] \notin Range(UpperCase)
            /\ out # <<>> => /\ out[1] \notin {" ", "_"}
                             /\ out[Len(out)] \notin {" ", "_"}
            /\ Count(out, "_") <= SeparatorRuns(normIn) + Count(normIn, "_")


\* C18: whatever the responses, fetch_player_stats sends at most
\* MAX_RETRIES + 1 requests; a response with status 200 is the last one it
\* asks for, and it returns that response's body; it raises only when the
\* attempt index is MAX_RETRIES.
C18_BoundedRetry ==
    /\ Len(fetch.log) <= MAX_RETRIES + 1
    /\ \A i \in 1..Len(fetch.log) :
           fetch.log[i] \in {"200", "200_not_json"} =>
               /\ i = Len(fetch.log)
               /\ fetch.pc = "returned"
               /\ fetch.result = "body"
    /\ fetch.pc = "raised" => fetch.attempt = MAX_RETRIES


\* C17: for every play text, the missing and the empty one included, and
\* shooting_play true, parse_play_text returns the play type shot; the
\* player is the text before an occurrence of " made " or " missed " (less
\* the spaces and dots at its ends) when the text has one, and empty when it
\* has none.
C17_ShootingPlayIsShot ==
    play.done /\ play.shooting_play =>
        LET text == strip(play.play_text.text)
            low == text_lower(text)
            before == {SubSeq(text, 1, i - 1) :
                          i \in {j \in 1..(Len(low) - 2) :
                                    /\ low[j] = " "
                                    /\ low[j + 1] \in {"made", "missed"}
                                    /\ low[j + 2] = " "}}
        IN  /\ play.play_type = <<"shot">>
            /\ IF before = {} THEN play.player = <<>>
               ELSE \E t \in before : play.player = strip_chars(t, {" ", "."})


\* C19: when clean.main has finished, every row of the table has been
\* updated exactly once, with the play type and player parse_play_text
\* gives for its playText and shootingPlay, and processed equals total_rows;
\* the UPDATEs of the run all come after its one BEGIN and before its one
\* COMMIT, which is sent only when the cursor is exhausted; and as long as
\* the run has not finished, after a failure in particular, the stored
\* table has none of the updates.
C19_ChunkedUpdateAllOrNothing ==
    LET log == clean.log
        where(kind) == {i \in 1..Len(log) : log[i] = kind}
    IN  /\ clean.pc = "done" /\ clean.total_rows > 0 =>
               /\ clean.processed = clean.total_rows
               /\ Len(clean.stored) = Len(clean.before)
               /\ \A r \in 1..Len(clean.before) :
                      LET old == clean.before[r]
                          new == clean.stored[r]
                          res == parse_play_text(old.playText,
                                                 old.shootingPlay = "true")
                      IN  /\ new.updates = 1
                          /\ new.play_type = res.play_type
                          /\ new.player = res.player
                          /\ new.rowid = old.rowid
                          /\ new.playText = old.playText
                          /\ new.shootingPlay = old.shootingPlay
        /\ Cardinality(where("BEGIN")) <= 1
        /\ Cardinality(where("COMMIT")) <= 1
        /\ \A u \in where("UPDATE") :
               /\ \E b \in where("BEGIN") : b < u
               /\ \A c \in where("COMMIT") : u < c
        /\ where("COMMIT") # {} =>
               /\ log[Len(log)] = "COMMIT"
               /\ clean.fetched = Len(clean.cursor)
        /\ clean.pc # "done" => clean.stored = clean.before

\* a run over three rows, in a full chunk and a partial one, that finished;
\* the last row is a shooting play
C19_Witness ==
    /\ clean.pc = "done"
    /\ clean.total_rows = 3
    /\ clean.processed = 3
    /\ clean.stored[3].play_type = <<"shot">>
    /\ clean.stored[1].play_type = <<"foul">>

====
